---- MODULE Spec2Model ----
(***************************************************************************)
(* Model of the terminal ASCII video player (src/player.py, and the copy   *)
(* embedded as PLAYER_CODE in src/install_ascii_player.py).                *)
(*                                                                         *)
(* Spec        the command line run: main, ASCIIVideoPlayer.__init__,      *)
(*             play and cleanup, one action per statement group of play,   *)
(*             with the interrupt signal (KeyboardInterrupt) as an action  *)
(*             of the environment that may fire at every position.         *)
(* SpecGlyph   the glyph index computation of frame_to_ascii.              *)
(* SpecHeight  the height derivation of __init__.                          *)
(* SpecRender  frame_to_ascii on a resized grayscale image.                *)
(*                                                                         *)
(* Rational numbers (frame rate, delays, wall-clock durations) are pairs   *)
(* <<numerator, denominator>>.                                             *)
(***************************************************************************)
EXTENDS Integers, Sequences, FiniteSets, TLC

\* ---------------------------------------------------------------- bounds
\* Longest stream, largest reported frame count, and (plus one) the largest
\* --start value.
MaxFrames == 2
\* Largest ramp length examined by SpecGlyph (the detailed ramp has 70).
MaxRampLen == 70
\* Largest --width examined by SpecHeight (the default width is 120).
MaxWidth == 120
\* Largest grid examined by SpecRender.
MaxCols == 2
MaxRows == 2

\* ------------------------------------------------------- program constants
DefaultWidth == 120
MaxLuminance == 255
BannerPauseSeconds == 2

\* ------------------------------------------------------------ arithmetic
Abs(x) == IF x < 0 THEN -x ELSE x

Sign(x) == IF x < 0 THEN -1 ELSE IF x > 0 THEN 1 ELSE 0

\* Python int(x) of the quotient num/den (den # 0): truncation toward zero.
Trunc(num, den) == Sign(num) * Sign(den) * (Abs(num) \div Abs(den))

\* Python round(x) of the quotient num/den (den # 0): nearest integer, a
\* tie going to the even neighbour.
RoundHalfEven(num, den) ==
    LET n == Abs(num)
        d == Abs(den)
        q == n \div d
        r == n % d
        m == IF 2 * r > d THEN q + 1
             ELSE IF 2 * r < d THEN q
             ELSE IF q % 2 = 0 THEN q ELSE q + 1
    IN  Sign(num) * Sign(den) * m

RatSub(a, b) == <<a[1] * b[2] - b[1] * a[2], a[2] * b[2]>>

RatPositive(a) == (a[1] > 0 /\ a[2] > 0) \/ (a[1] < 0 /\ a[2] < 0)

\* ------------------------------------------------------------ glyph ramps
ASCII_CHARS == <<"@", "%", "#", "*", "+", "=", "-", ":", ".", " ">>

DETAILED_CHARS ==
    <<"$", "@", "B", "%", "8", "&", "W", "M", "#", "*",
      "o", "a", "h", "k", "b", "d", "p", "q", "w", "m",
      "Z", "O", "0", "Q", "L", "C", "J", "U", "Y", "X",
      "z", "c", "v", "u", "n", "x", "r", "j", "f", "t",
      "/", "\\", "|", "(", ")", "1", "{", "}", "[", "]",
      "?", "-", "_", "+", "~", "<", ">", "i", "!", "l",
      "I", ";", ":", ",", "\"", "^", "`", "'", ".", " ">>

SelectRamp(d) == IF d THEN DETAILED_CHARS ELSE ASCII_CHARS

\* -------------------------------------------------------------- inputs
\* --width values tried on the command line (type=int, default 120).
Widths == {1, DefaultWidth}

\* --start values tried on the command line (type=int, default 0).
Starts == -1 .. MaxFrames + 1

\* Frame rates the source may report (CAP_PROP_FPS, may be <= 0).
FpsSet == {<<-1, 1>>, <<0, 1>>, <<30, 1>>}

\* Resolutions <<original_width, original_height>> the source may report.
Resolutions == {<<1920, 1080>>, <<1, 2>>, <<0, 0>>}

\* Wall-clock durations of one loop iteration, in seconds.
ElapsedSet == {<<1, 1000>>, <<1, 10>>}

\* ---------------------------------------------------------------- state
VARIABLES
    pc,               \* position of the thread of control
    exc,              \* exception being propagated ("none" when there is none)
    exitCode,         \* exit status of the process, -1 while it runs
    video_exists,     \* os.path.isfile(args.video)
    width,            \* args.width / self.width
    detailed,         \* args.detailed / self.detailed
    start_frame,      \* args.start / play's start_frame
    ascii_chars,      \* self.ascii_chars
    fps,              \* self.fps
    frame_count,      \* self.frame_count
    original_width,   \* self.original_width
    original_height,  \* self.original_height
    height,           \* self.height
    cap_len,          \* number of frames the stream really holds
    opens,            \* number of cv2.VideoCapture(video_path) calls
    cap_pos,          \* read position of self.cap
    seeks,            \* number of cap.set(CAP_PROP_POS_FRAMES, ..) calls
    releases,         \* number of cap.release() calls
    frame_delay,      \* play's frame_delay
    frame_num,        \* play's frame_num
    elapsed,          \* play's elapsed
    sleep_time,       \* play's sleep_time
    slept,            \* durations passed to time.sleep, in order
    out,              \* lines printed, in order
    progress,         \* progress lines printed: <<frame_num, frame_count, tenths of a percent>>
    fetched,          \* stream positions of the frames cap.read() returned
    emitted,          \* stream positions of the frames printed
    eos,              \* cap.read() has reported the end of the stream
    interrupts,       \* interrupt signals delivered so far
    pixel,            \* SpecGlyph: luminance
    ramp_len,         \* SpecGlyph: len(self.ascii_chars)
    char_idx,         \* SpecGlyph: char_index
    gray,             \* SpecRender: the resized grayscale image, rows of luminances
    ascii_frame,      \* SpecRender: the text block returned
    inst              \* SpecBoth: the state of the run of the PLAYER_CODE copy

vars == <<pc, exc, exitCode, video_exists, width, detailed, start_frame,
          ascii_chars, fps, frame_count, original_width, original_height,
          height, cap_len, opens, cap_pos, seeks, releases, frame_delay,
          frame_num, elapsed,
          sleep_time, slept, out, progress, fetched, emitted, eos, interrupts,
          pixel, ramp_len, char_idx, gray, ascii_frame, inst>>

argVars == <<video_exists, width, detailed, start_frame>>

playerVars == <<ascii_chars, fps, frame_count, original_width,
                original_height, height, cap_len>>

pureVars == <<pixel, ramp_len, char_idx, gray, ascii_frame, inst>>

capVars == <<opens, cap_pos, seeks, releases>>

loopVars == <<frame_delay, frame_num, elapsed, sleep_time, slept>>

obsVars == <<out, progress, fetched, emitted, eos>>

\* ------------------------------------------------------- pure functions
\* Luminance/ramp-length pairs at which the double-precision product
\* pixel / 255 * (len - 1) lies just below the exact integer quotient
\* (155/255*51 = 30.999999999999996), so that int() yields one less; there
\* are no others for ramp lengths up to 79.
FloatShortfall == {<<155, 52>>, <<187, 76>>}

\* char_index with the ramp length, not the last index, as the scale.
char_index_scaledByLen(p, n) == (p * n) \div MaxLuminance

\* char_index = int(pixel / 255 * (len(self.ascii_chars) - 1))
char_index(p, n) ==
    LET exact == (p * (n - 1)) \div MaxLuminance
    IN  IF <<p, n>> \in FloatShortfall THEN exact - 1 ELSE exact

\* The height rounded to the nearest integer instead of truncated.
DerivedHeight_rounded(w, oh, ow) == RoundHalfEven(w * oh * 55, ow * 100)

\* self.height = int(self.width * self.original_height / self.original_width * 0.55)
\* (original_width # 0; the division raises otherwise)
DerivedHeight(w, oh, ow) == Trunc(w * oh * 55, ow * 100)

\* frame_delay with the guard "fps >= 0" in place of "fps > 0".
FrameDelay_guardGe(f) ==
    IF RatPositive(f) \/ f[1] = 0 THEN <<f[2], f[1]>> ELSE <<33, 1000>>

\* frame_delay = 1.0 / self.fps if self.fps > 0 else 0.033
FrameDelay(f) == IF RatPositive(f) THEN <<f[2], f[1]>> ELSE <<33, 1000>>

\* f"{frame_num/self.frame_count*100:.1f}", in tenths of a percent
\* (frame_count # 0; the division raises otherwise)
Percent(n, total) == RoundHalfEven(n * 1000, total)

\* the inner loop of frame_to_ascii: one glyph per pixel of the row
RECURSIVE RowToAscii(_, _)
RowToAscii(row, chars) ==
    IF row = <<>> THEN <<>>
    ELSE <<chars[char_index(Head(row), Len(chars)) + 1]>>
         \o RowToAscii(Tail(row), chars)

\* the outer loop of frame_to_ascii: the glyphs of each row, then "\n"
RECURSIVE RowsToAscii(_, _)
RowsToAscii(rows, chars) ==
    IF rows = <<>> THEN <<>>
    ELSE RowToAscii(Head(rows), chars) \o <<"\n">>
         \o RowsToAscii(Tail(rows), chars)

\* Luminances a resized pixel may take.
Lums == {0, 128, MaxLuminance}

\* cv2.resize(frame, (width, height)) followed by cv2.cvtColor(.., BGR2GRAY):
\* any image of height rows and width columns (the resampling is the
\* library's; it raises instead when a dimension is not positive).
ResizedGray(w, h) == [1 .. h -> [1 .. w -> Lums]]

ResizeRaises(w, h) == w <= 0 \/ h <= 0

\* frame_to_ascii with the separator between the rows only ('\n'.join).
frame_to_ascii_joined(g, chars) ==
    LET block == RowsToAscii(g, chars)
    IN  SubSeq(block, 1, Len(block) - 1)

frame_to_ascii(g, chars) == RowsToAscii(g, chars)

\* ------------------------------------------------------ the command line
\* Values of the pure-function variables in the specifications that do not
\* use them.
\* The run of the PLAYER_CODE copy right after parser.parse_args().
InstIdle ==
    [pc |-> "main_check", exc |-> "none", exitCode |-> -1,
     ascii_chars |-> <<>>, fps |-> <<0, 1>>, frame_count |-> 0,
     original_width |-> 0, original_height |-> 0, height |-> 0,
     opens |-> 0, cap_pos |-> 0, seeks |-> 0, releases |-> 0,
     frame_delay |-> <<0, 1>>, frame_num |-> 0, sleep_time |-> <<0, 1>>,
     slept |-> <<>>, out |-> <<>>, progress |-> <<>>, fetched |-> <<>>,
     emitted |-> <<>>, eos |-> FALSE, interrupts |-> 0]

PureIdle ==
    /\ inst = InstIdle
    /\ pixel = 0
    /\ ramp_len = 0
    /\ char_idx = 0
    /\ gray = <<>>
    /\ ascii_frame = <<>>

\* The state right after parser.parse_args().
Init ==
    /\ pc = "main_check"
    /\ exc = "none"
    /\ exitCode = -1
    /\ video_exists \in BOOLEAN
    /\ width \in Widths
    /\ detailed \in BOOLEAN
    /\ start_frame \in Starts
    /\ ascii_chars = <<>>
    /\ fps = <<0, 1>>
    /\ frame_count = 0
    /\ original_width = 0
    /\ original_height = 0
    /\ height = 0
    /\ cap_len = 0
    /\ opens = 0
    /\ cap_pos = 0
    /\ seeks = 0
    /\ releases = 0
    /\ frame_delay = <<0, 1>>
    /\ frame_num = 0
    /\ elapsed = <<0, 1>>
    /\ sleep_time = <<0, 1>>
    /\ slept = <<>>
    /\ out = <<>>
    /\ progress = <<>>
    /\ fetched = <<>>
    /\ emitted = <<>>
    /\ eos = FALSE
    /\ interrupts = 0
    /\ PureIdle

\* Positions inside play's try block.
TryPcs == {"seek", "delay", "banner", "pause", "clear", "loop_top", "read",
           "render", "emit", "progress", "incr", "pace", "sleeping",
           "print_complete", "try_end"}

\* Positions inside play, from the call to the return.
PlayPcs == TryPcs \cup {"play_entry", "except", "finally", "cleanup_done"}

\* An exception of class Exception raised inside the try block: no except
\* clause of play matches, the finally clause runs with it pending.
RaiseInTry(e) ==
    /\ exc' = e
    /\ pc' = "finally"

\* MainCheck without the sys.exit(1): the error is printed and main goes on.
MainCheck_noExit ==
    /\ pc = "main_check"
    /\ IF video_exists
       THEN UNCHANGED out
       ELSE out' = Append(out, "Error: File not found")
    /\ pc' = "construct"
    /\ UNCHANGED <<exc, exitCode, argVars, playerVars, capVars, loopVars,
                   progress, fetched, emitted, eos, interrupts, pureVars>>

\* if not os.path.isfile(args.video): print(..); sys.exit(1)
MainCheck ==
    /\ pc = "main_check"
    /\ IF video_exists
       THEN /\ pc' = "construct"
            /\ UNCHANGED <<out, exitCode>>
       ELSE /\ out' = Append(out, "Error: File not found")
            /\ exitCode' = 1
            /\ pc' = "exited"
    /\ UNCHANGED <<exc, argVars, playerVars, capVars, loopVars, progress,
                   fetched, emitted, eos, interrupts, pureVars>>

\* ASCIIVideoPlayer.__init__, the open failing: raise ValueError
ConstructOpenFails ==
    /\ pc = "construct"
    /\ ascii_chars' = SelectRamp(detailed)
    /\ opens' = opens + 1
    /\ exc' = "ValueError"
    /\ pc' = "construct_raised"
    /\ UNCHANGED <<exitCode, argVars, fps, frame_count, original_width,
                   original_height, height, cap_len, cap_pos, seeks,
                   releases, loopVars, obsVars, interrupts, pureVars>>

\* ASCIIVideoPlayer.__init__, the source opened: read its properties and
\* derive the height; a zero original width raises ZeroDivisionError.
Construct ==
    /\ pc = "construct"
    /\ ascii_chars' = SelectRamp(detailed)
    /\ \E f \in FpsSet, fc \in 0 .. MaxFrames, res \in Resolutions,
          len \in 0 .. MaxFrames :
          /\ fps' = f
          /\ frame_count' = fc
          /\ original_width' = res[1]
          /\ original_height' = res[2]
          /\ cap_len' = len
          /\ IF res[1] = 0
             THEN /\ exc' = "ZeroDivisionError"
                  /\ pc' = "construct_raised"
                  /\ UNCHANGED height
             ELSE /\ height' = DerivedHeight(width, res[2], res[1])
                  /\ pc' = "play_entry"
                  /\ UNCHANGED exc
    /\ opens' = opens + 1
    /\ UNCHANGED <<exitCode, argVars, cap_pos, seeks, releases, loopVars,
                   obsVars, interrupts, pureVars>>

\* player.play(start_frame=args.start): the call enters the try block
PlayEnter ==
    /\ pc = "play_entry"
    /\ pc' = "seek"
    /\ UNCHANGED <<exc, exitCode, argVars, playerVars, capVars, loopVars,
                   obsVars, interrupts, pureVars>>

\* Seek with the guard "start_frame >= 0" in place of "start_frame > 0".
Seek_guardGe ==
    /\ pc = "seek"
    /\ IF start_frame >= 0
       THEN /\ cap_pos' = start_frame
            /\ seeks' = seeks + 1
       ELSE UNCHANGED <<cap_pos, seeks>>
    /\ pc' = "delay"
    /\ UNCHANGED <<exc, exitCode, argVars, playerVars, opens, releases, loopVars,
                   obsVars, interrupts, pureVars>>

\* if start_frame > 0: self.cap.set(cv2.CAP_PROP_POS_FRAMES, start_frame)
Seek ==
    /\ pc = "seek"
    /\ IF start_frame > 0
       THEN /\ cap_pos' = start_frame
            /\ seeks' = seeks + 1
       ELSE UNCHANGED <<cap_pos, seeks>>
    /\ pc' = "delay"
    /\ UNCHANGED <<exc, exitCode, argVars, playerVars, opens, releases, loopVars,
                   obsVars, interrupts, pureVars>>

\* frame_delay = ...; frame_num = start_frame
Delay ==
    /\ pc = "delay"
    /\ frame_delay' = FrameDelay(fps)
    /\ frame_num' = start_frame
    /\ pc' = "banner"
    /\ UNCHANGED <<exc, exitCode, argVars, playerVars, capVars, elapsed,
                   sleep_time, slept, obsVars, interrupts, pureVars>>

\* the four banner prints
Banner ==
    /\ pc = "banner"
    /\ out' = Append(out, "banner")
    /\ pc' = "pause"
    /\ UNCHANGED <<exc, exitCode, argVars, playerVars, capVars, loopVars,
                   progress, fetched, emitted, eos, interrupts,
                   pureVars>>

\* time.sleep(2)
Pause ==
    /\ pc = "pause"
    /\ slept' = Append(slept, <<BannerPauseSeconds, 1>>)
    /\ pc' = "clear"
    /\ UNCHANGED <<exc, exitCode, argVars, playerVars, capVars, frame_delay,
                   frame_num, elapsed, sleep_time, obsVars, interrupts,
                   pureVars>>

\* self.clear_screen()
Clear ==
    /\ pc = "clear"
    /\ out' = Append(out, "clear")
    /\ pc' = "loop_top"
    /\ UNCHANGED <<exc, exitCode, argVars, playerVars, capVars, loopVars,
                   progress, fetched, emitted, eos, interrupts,
                   pureVars>>

\* start_time = time.time()
LoopTop ==
    /\ pc = "loop_top"
    /\ pc' = "read"
    /\ UNCHANGED <<exc, exitCode, argVars, playerVars, capVars, loopVars,
                   obsVars, interrupts, pureVars>>

\* ret, frame = self.cap.read(); if not ret: break
Read ==
    /\ pc = "read"
    /\ IF 0 <= cap_pos /\ cap_pos < cap_len
       THEN /\ fetched' = Append(fetched, cap_pos)
            /\ cap_pos' = cap_pos + 1
            /\ pc' = "render"
            /\ UNCHANGED eos
       ELSE /\ eos' = TRUE
            /\ pc' = "print_complete"
            /\ UNCHANGED <<fetched, cap_pos>>
    /\ UNCHANGED <<exc, exitCode, argVars, playerVars, opens, seeks,
                   releases, loopVars, out, progress, emitted, interrupts,
                   pureVars>>

\* ascii_frame = self.frame_to_ascii(frame); cv2.resize raises cv2.error
\* when the width or the height is not positive
Render ==
    /\ pc = "render"
    /\ IF ResizeRaises(width, height)
       THEN RaiseInTry("cv2.error")
       ELSE /\ pc' = "emit"
            /\ UNCHANGED exc
    /\ UNCHANGED <<exitCode, argVars, playerVars, capVars, loopVars, obsVars,
                   interrupts, pureVars>>

\* Emit that drops the frame when the previous iteration overran frame_delay.
Emit_dropWhenLate ==
    /\ pc = "emit"
    /\ IF Len(emitted) > 0 /\ ~RatPositive(sleep_time)
       THEN UNCHANGED <<out, emitted>>
       ELSE /\ out' = out \o <<"home", "frame">>
            /\ emitted' = Append(emitted, fetched[Len(fetched)])
    /\ pc' = "progress"
    /\ UNCHANGED <<exc, exitCode, argVars, playerVars, capVars, loopVars,
                   progress, fetched, eos, interrupts, pureVars>>

\* print("\033[H", end=''); print(ascii_frame, end='')
Emit ==
    /\ pc = "emit"
    /\ out' = out \o <<"home", "frame">>
    /\ emitted' = Append(emitted, fetched[Len(fetched)])
    /\ pc' = "progress"
    /\ UNCHANGED <<exc, exitCode, argVars, playerVars, capVars, loopVars,
                   progress, fetched, eos, interrupts, pureVars>>

\* print(f"\nFrame: {frame_num}/{self.frame_count} | {frame_num/self.frame_count*100:.1f}%", end='')
\* the f-string is evaluated first: frame_count = 0 raises ZeroDivisionError
Progress ==
    /\ pc = "progress"
    /\ IF frame_count = 0
       THEN /\ RaiseInTry("ZeroDivisionError")
            /\ UNCHANGED <<out, progress>>
       ELSE /\ out' = Append(out, "progress")
            /\ progress' = Append(progress,
                   <<frame_num, frame_count, Percent(frame_num, frame_count)>>)
            /\ pc' = "incr"
            /\ UNCHANGED exc
    /\ UNCHANGED <<exitCode, argVars, playerVars, capVars, loopVars, fetched,
                   emitted, eos, interrupts, pureVars>>

\* Incr with the sign of the step wrong (frame_num -= 1).
Incr_decrement ==
    /\ pc = "incr"
    /\ frame_num' = frame_num - 1
    /\ pc' = "pace"
    /\ UNCHANGED <<exc, exitCode, argVars, playerVars, capVars, frame_delay,
                   elapsed, sleep_time, slept, obsVars, interrupts, pureVars>>

\* frame_num += 1
Incr ==
    /\ pc = "incr"
    /\ frame_num' = frame_num + 1
    /\ pc' = "pace"
    /\ UNCHANGED <<exc, exitCode, argVars, playerVars, capVars, frame_delay,
                   elapsed, sleep_time, slept, obsVars, interrupts, pureVars>>

\* Pace that sleeps a whole frame_delay whatever the iteration took.
Pace_fullDelay ==
    /\ pc = "pace"
    /\ \E e \in ElapsedSet :
          /\ elapsed' = e
          /\ sleep_time' = frame_delay
          /\ slept' = Append(slept, sleep_time')
          /\ pc' = "sleeping"
    /\ UNCHANGED <<exc, exitCode, argVars, playerVars, capVars, frame_delay,
                   frame_num, obsVars, interrupts, pureVars>>

\* elapsed = time.time() - start_time; sleep_time = frame_delay - elapsed
\* if sleep_time > 0: time.sleep(sleep_time)
Pace ==
    /\ pc = "pace"
    /\ \E e \in ElapsedSet :
          /\ elapsed' = e
          /\ sleep_time' = RatSub(frame_delay, e)
          /\ IF RatPositive(sleep_time')
             THEN /\ slept' = Append(slept, sleep_time')
                  /\ pc' = "sleeping"
             ELSE /\ pc' = "loop_top"
                  /\ UNCHANGED slept
    /\ UNCHANGED <<exc, exitCode, argVars, playerVars, capVars, frame_delay,
                   frame_num, obsVars, interrupts, pureVars>>

\* time.sleep(sleep_time) returns
Wake ==
    /\ pc = "sleeping"
    /\ pc' = "loop_top"
    /\ UNCHANGED <<exc, exitCode, argVars, playerVars, capVars, loopVars,
                   obsVars, interrupts, pureVars>>

\* print("\n\n... Video playback complete!")
PrintComplete ==
    /\ pc = "print_complete"
    /\ out' = Append(out, "complete")
    /\ pc' = "try_end"
    /\ UNCHANGED <<exc, exitCode, argVars, playerVars, capVars, loopVars,
                   progress, fetched, emitted, eos, interrupts, pureVars>>

\* the try block is left normally: on to the finally clause
TryEnd ==
    /\ pc = "try_end"
    /\ pc' = "finally"
    /\ UNCHANGED <<exc, exitCode, argVars, playerVars, capVars, loopVars,
                   obsVars, interrupts, pureVars>>

\* except KeyboardInterrupt: print("\n\n... Playback stopped by user")
Except ==
    /\ pc = "except"
    /\ out' = Append(out, "stopped")
    /\ pc' = "finally"
    /\ UNCHANGED <<exc, exitCode, argVars, playerVars, capVars, loopVars,
                   progress, fetched, emitted, eos, interrupts, pureVars>>

\* cleanup that also resets the session's frame count and height on release.
cleanup_resetsFields ==
    /\ pc = "finally"
    /\ releases' = releases + 1
    /\ frame_count' = 0
    /\ height' = 0
    /\ pc' = "cleanup_done"
    /\ UNCHANGED <<exc, exitCode, argVars, ascii_chars, fps, original_width,
                   original_height, cap_len, opens, cap_pos, seeks, loopVars,
                   obsVars, interrupts, pureVars>>

\* finally: self.cleanup()  ->  self.cap.release()
cleanup ==
    /\ pc = "finally"
    /\ releases' = releases + 1
    /\ pc' = "cleanup_done"
    /\ UNCHANGED <<exc, exitCode, argVars, playerVars, opens, cap_pos, seeks,
                   loopVars, obsVars, interrupts, pureVars>>

\* the finally clause ends: play returns, or the pending exception goes on
\* to the caller
PlayLeave ==
    /\ pc = "cleanup_done"
    /\ pc' = IF exc = "none" THEN "play_returned" ELSE "play_raised"
    /\ UNCHANGED <<exc, exitCode, argVars, playerVars, capVars, loopVars,
                   obsVars, interrupts, pureVars>>

\* main returns after play returned: the process exits with status 0
MainReturn ==
    /\ pc = "play_returned"
    /\ exitCode' = 0
    /\ pc' = "exited"
    /\ UNCHANGED <<exc, argVars, playerVars, capVars, loopVars, obsVars,
                   interrupts, pureVars>>

\* Exception classes that main's "except Exception" matches.
ExceptionClasses == {"ValueError", "ZeroDivisionError", "cv2.error"}

\* The line print(f"Error: {e}") writes for an exception of each class.
ErrorLine(e) ==
    IF e = "ValueError" THEN "Error: Cannot open video file"
    ELSE IF e = "ZeroDivisionError" THEN "Error: division by zero"
    ELSE "Error: cv2.error"

\* except Exception as e: print(f"Error: {e}"); sys.exit(1)
\* KeyboardInterrupt is no Exception: it leaves main uncaught and the
\* interpreter ends the process with a non-zero status.
MainExcept ==
    /\ pc \in {"construct_raised", "play_raised"}
    /\ IF exc \in ExceptionClasses
       THEN /\ out' = Append(out, ErrorLine(exc))
            /\ exitCode' = 1
       ELSE /\ out' = Append(out, "Traceback: KeyboardInterrupt")
            /\ exitCode' = 130
    /\ pc' = "exited"
    /\ UNCHANGED <<exc, argVars, playerVars, capVars, loopVars, progress,
                   fetched, emitted, eos, interrupts, pureVars>>

\* The interrupt signal (Ctrl+C): KeyboardInterrupt is raised at the
\* position the thread of control is at.  Inside the try block the except
\* clause catches it; inside the except clause the finally clause still runs
\* and the exception goes on; before the try block, or inside the finally
\* clause (before or after cap.release()), or during construction, nothing
\* in play or main catches it.
Interrupt ==
    /\ pc \in PlayPcs \cup {"construct"}
    /\ interrupts' = interrupts + 1
    /\ IF pc \in TryPcs
       THEN /\ pc' = "except"
            /\ UNCHANGED exc
       ELSE /\ exc' = "KeyboardInterrupt"
            /\ pc' = IF pc = "except" THEN "finally"
                     ELSE IF pc = "construct" THEN "construct_raised"
                     ELSE "play_raised"
    /\ UNCHANGED <<exitCode, argVars, playerVars, capVars, loopVars, obsVars,
                   pureVars>>

Next ==
    \/ MainCheck
    \/ ConstructOpenFails
    \/ Construct
    \/ PlayEnter
    \/ Seek
    \/ Delay
    \/ Banner
    \/ Pause
    \/ Clear
    \/ LoopTop
    \/ Read
    \/ Render
    \/ Emit
    \/ Progress
    \/ Incr
    \/ Pace
    \/ Wake
    \/ PrintComplete
    \/ TryEnd
    \/ Except
    \/ cleanup
    \/ PlayLeave
    \/ MainReturn
    \/ MainExcept
    \/ Interrupt

Spec == Init /\ [][Next]_vars

\* ------------------------------------------- the PLAYER_CODE copy (SpecBoth)
\* The installer writes PLAYER_CODE to ascii_player.py; the definitions below
\* are that file's statements, acting on the record inst.  The run of the
\* copy is given what the run of player.py was given: the same command line
\* (argVars), the same source (its reported properties, its length cap_len,
\* whether it opens), the same clock reading and the same interrupts.

\* time.sleep(2) after the banner
I_BannerPauseSeconds == 2

\* Every variable but inst.
mainVars == <<pc, exc, exitCode, argVars, playerVars, capVars, loopVars,
              obsVars, interrupts, pixel, ramp_len, char_idx, gray,
              ascii_frame>>

\* ASCII_CHARS = "@%#*+=-:. "
I_ASCII_CHARS == <<"@", "%", "#", "*", "+", "=", "-", ":", ".", " ">>

\* the detailed ramp, after the escapes of the PLAYER_CODE literal and of the
\* literal inside it are processed (\\\\ -> \\ -> \ and \\' -> \' -> ')
I_DETAILED_CHARS ==
    <<"$", "@", "B", "%", "8", "&", "W", "M", "#", "*",
      "o", "a", "h", "k", "b", "d", "p", "q", "w", "m",
      "Z", "O", "0", "Q", "L", "C", "J", "U", "Y", "X",
      "z", "c", "v", "u", "n", "x", "r", "j", "f", "t",
      "/", "\\", "|", "(", ")", "1", "{", "}", "[", "]",
      "?", "-", "_", "+", "~", "<", ">", "i", "!", "l",
      "I", ";", ":", ",", "\"", "^", "`", "'", ".", " ">>

I_SelectRamp(d) == IF d THEN I_DETAILED_CHARS ELSE I_ASCII_CHARS

\* self.height = int(self.width * self.original_height / self.original_width * 0.55)
I_DerivedHeight(w, oh, ow) == Trunc(w * oh * 55, ow * 100)

\* frame_delay = 1.0 / self.fps if self.fps > 0 else 0.033
I_FrameDelay(f) == IF RatPositive(f) THEN <<f[2], f[1]>> ELSE <<33, 1000>>

\* f"{frame_num/self.frame_count*100:.1f}", in tenths of a percent
I_Percent(n, total) == RoundHalfEven(n * 1000, total)

\* The source could not be opened: cap.isOpened() is False in both runs.
OpenFailed == exc = "ValueError"

\* player.py has taken a step that the copy has not taken yet, and that
\* step was no interrupt: the copy executes its next statement.
CopyBehind == inst.pc # pc /\ inst.interrupts = interrupts

\* The step player.py took and the copy has not was an interrupt.
InterruptDue == inst.pc # pc /\ inst.interrupts < interrupts

\* if not os.path.isfile(args.video): print(..); sys.exit(1)
I_MainCheck ==
    /\ CopyBehind
    /\ inst.pc = "main_check"
    /\ inst' = IF video_exists
               THEN [inst EXCEPT !.pc = "construct"]
               ELSE [inst EXCEPT !.out = Append(@, "Error: File not found"),
                                 !.exitCode = 1,
                                 !.pc = "exited"]
    /\ UNCHANGED mainVars

\* ASCIIVideoPlayer.__init__, the open failing: raise ValueError
I_ConstructOpenFails ==
    /\ CopyBehind
    /\ inst.pc = "construct"
    /\ OpenFailed
    /\ inst' = [inst EXCEPT !.ascii_chars = I_SelectRamp(detailed),
                            !.opens = @ + 1,
                            !.exc = "ValueError",
                            !.pc = "construct_raised"]
    /\ UNCHANGED mainVars

\* ASCIIVideoPlayer.__init__ on a source that opens: the properties are read
\* from the capture and the height is derived; the division raises
\* ZeroDivisionError when the source reports width 0
I_Construct ==
    /\ CopyBehind
    /\ inst.pc = "construct"
    /\ ~OpenFailed
    /\ inst' = IF original_width = 0
               THEN [inst EXCEPT !.ascii_chars = I_SelectRamp(detailed),
                                 !.opens = @ + 1,
                                 !.fps = fps,
                                 !.frame_count = frame_count,
                                 !.original_width = original_width,
                                 !.original_height = original_height,
                                 !.exc = "ZeroDivisionError",
                                 !.pc = "construct_raised"]
               ELSE [inst EXCEPT !.ascii_chars = I_SelectRamp(detailed),
                                 !.opens = @ + 1,
                                 !.fps = fps,
                                 !.frame_count = frame_count,
                                 !.original_width = original_width,
                                 !.original_height = original_height,
                                 !.height = I_DerivedHeight(width,
                                              original_height, original_width),
                                 !.pc = "play_entry"]
    /\ UNCHANGED mainVars

\* player.play(start_frame=args.start): the call enters the try block
I_PlayEnter ==
    /\ CopyBehind
    /\ inst.pc = "play_entry"
    /\ inst' = [inst EXCEPT !.pc = "seek"]
    /\ UNCHANGED mainVars

\* if start_frame > 0: self.cap.set(cv2.CAP_PROP_POS_FRAMES, start_frame)
I_Seek ==
    /\ CopyBehind
    /\ inst.pc = "seek"
    /\ inst' = IF start_frame > 0
               THEN [inst EXCEPT !.cap_pos = start_frame,
                                 !.seeks = @ + 1,
                                 !.pc = "delay"]
               ELSE [inst EXCEPT !.pc = "delay"]
    /\ UNCHANGED mainVars

\* frame_delay = ...; frame_num = start_frame
I_Delay ==
    /\ CopyBehind
    /\ inst.pc = "delay"
    /\ inst' = [inst EXCEPT !.frame_delay = I_FrameDelay(inst.fps),
                            !.frame_num = start_frame,
                            !.pc = "banner"]
    /\ UNCHANGED mainVars

\* the four banner prints
I_Banner ==
    /\ CopyBehind
    /\ inst.pc = "banner"
    /\ inst' = [inst EXCEPT !.out = Append(@, "banner"), !.pc = "pause"]
    /\ UNCHANGED mainVars

\* time.sleep(2)
I_Pause ==
    /\ CopyBehind
    /\ inst.pc = "pause"
    /\ inst' = [inst EXCEPT !.slept = Append(@, <<I_BannerPauseSeconds, 1>>),
                            !.pc = "clear"]
    /\ UNCHANGED mainVars

\* self.clear_screen()
I_Clear ==
    /\ CopyBehind
    /\ inst.pc = "clear"
    /\ inst' = [inst EXCEPT !.out = Append(@, "clear"), !.pc = "loop_top"]
    /\ UNCHANGED mainVars

\* start_time = time.time()
I_LoopTop ==
    /\ CopyBehind
    /\ inst.pc = "loop_top"
    /\ inst' = [inst EXCEPT !.pc = "read"]
    /\ UNCHANGED mainVars

\* ret, frame = self.cap.read(); if not ret: break
I_Read ==
    /\ CopyBehind
    /\ inst.pc = "read"
    /\ inst' = IF 0 <= inst.cap_pos /\ inst.cap_pos < cap_len
               THEN [inst EXCEPT !.fetched = Append(@, inst.cap_pos),
                                 !.cap_pos = @ + 1,
                                 !.pc = "render"]
               ELSE [inst EXCEPT !.eos = TRUE, !.pc = "print_complete"]
    /\ UNCHANGED mainVars

\* ascii_frame = self.frame_to_ascii(frame)
I_Render ==
    /\ CopyBehind
    /\ inst.pc = "render"
    /\ inst' = IF ResizeRaises(width, inst.height)
               THEN [inst EXCEPT !.exc = "cv2.error", !.pc = "finally"]
               ELSE [inst EXCEPT !.pc = "emit"]
    /\ UNCHANGED mainVars

\* print(f"\033[H", end=''); print(ascii_frame, end='')
I_Emit ==
    /\ CopyBehind
    /\ inst.pc = "emit"
    /\ inst' = [inst EXCEPT !.out = @ \o <<"home", "frame">>,
                            !.emitted = Append(@, inst.fetched[Len(inst.fetched)]),
                            !.pc = "progress"]
    /\ UNCHANGED mainVars

\* Progress of the copy with a guard for frame_count = 0 (0% is printed).
I_Progress_guarded ==
    /\ CopyBehind
    /\ inst.pc = "progress"
    /\ inst' = [inst EXCEPT
                  !.out = Append(@, "progress"),
                  !.progress = Append(@,
                      <<inst.frame_num, inst.frame_count,
                        IF inst.frame_count = 0 THEN 0
                        ELSE I_Percent(inst.frame_num, inst.frame_count)>>),
                  !.pc = "incr"]
    /\ UNCHANGED mainVars

\* print(f"\nFrame: {frame_num}/{self.frame_count} | {..:.1f}%", end='')
I_Progress ==
    /\ CopyBehind
    /\ inst.pc = "progress"
    /\ inst' = IF inst.frame_count = 0
               THEN [inst EXCEPT !.exc = "ZeroDivisionError",
                                 !.pc = "finally"]
               ELSE [inst EXCEPT
                       !.out = Append(@, "progress"),
                       !.progress = Append(@,
                           <<inst.frame_num, inst.frame_count,
                             I_Percent(inst.frame_num, inst.frame_count)>>),
                       !.pc = "incr"]
    /\ UNCHANGED mainVars

\* frame_num += 1
I_Incr ==
    /\ CopyBehind
    /\ inst.pc = "incr"
    /\ inst' = [inst EXCEPT !.frame_num = @ + 1, !.pc = "pace"]
    /\ UNCHANGED mainVars

\* elapsed = time.time() - start_time; sleep_time = frame_delay - elapsed
\* if sleep_time > 0: time.sleep(sleep_time)
I_Pace ==
    /\ CopyBehind
    /\ inst.pc = "pace"
    /\ LET st == RatSub(inst.frame_delay, elapsed)
       IN  inst' = IF RatPositive(st)
                   THEN [inst EXCEPT !.sleep_time = st,
                                     !.slept = Append(@, st),
                                     !.pc = "sleeping"]
                   ELSE [inst EXCEPT !.sleep_time = st, !.pc = "loop_top"]
    /\ UNCHANGED mainVars

\* time.sleep(sleep_time) returns
I_Wake ==
    /\ CopyBehind
    /\ inst.pc = "sleeping"
    /\ inst' = [inst EXCEPT !.pc = "loop_top"]
    /\ UNCHANGED mainVars

\* print("\n\n[DONE] Video playback complete!")
I_PrintComplete ==
    /\ CopyBehind
    /\ inst.pc = "print_complete"
    /\ inst' = [inst EXCEPT !.out = Append(@, "[DONE] complete"),
                            !.pc = "try_end"]
    /\ UNCHANGED mainVars

\* the try block is left normally: on to the finally clause
I_TryEnd ==
    /\ CopyBehind
    /\ inst.pc = "try_end"
    /\ inst' = [inst EXCEPT !.pc = "finally"]
    /\ UNCHANGED mainVars

\* except KeyboardInterrupt: print("\n\n[STOP] Playback stopped by user")
I_Except ==
    /\ CopyBehind
    /\ inst.pc = "except"
    /\ inst' = [inst EXCEPT !.out = Append(@, "[STOP] stopped"),
                            !.pc = "finally"]
    /\ UNCHANGED mainVars

\* finally: self.cleanup()  ->  self.cap.release()
I_cleanup ==
    /\ CopyBehind
    /\ inst.pc = "finally"
    /\ inst' = [inst EXCEPT !.releases = @ + 1, !.pc = "cleanup_done"]
    /\ UNCHANGED mainVars

\* the finally clause ends: play returns, or the pending exception goes on
I_PlayLeave ==
    /\ CopyBehind
    /\ inst.pc = "cleanup_done"
    /\ inst' = [inst EXCEPT !.pc = IF inst.exc = "none" THEN "play_returned"
                                   ELSE "play_raised"]
    /\ UNCHANGED mainVars

\* main returns after play returned: the process exits with status 0
I_MainReturn ==
    /\ CopyBehind
    /\ inst.pc = "play_returned"
    /\ inst' = [inst EXCEPT !.exitCode = 0, !.pc = "exited"]
    /\ UNCHANGED mainVars

\* except Exception as e: print(f"Error: {e}"); sys.exit(1)
I_MainExcept ==
    /\ CopyBehind
    /\ inst.pc \in {"construct_raised", "play_raised"}
    /\ inst' = IF inst.exc \in ExceptionClasses
               THEN [inst EXCEPT !.out = Append(@, ErrorLine(inst.exc)),
                                 !.exitCode = 1,
                                 !.pc = "exited"]
               ELSE [inst EXCEPT
                       !.out = Append(@, "Traceback: KeyboardInterrupt"),
                       !.exitCode = 130,
                       !.pc = "exited"]
    /\ UNCHANGED mainVars

\* The interrupt signal reaching the copy at the position it is at.
I_Interrupt ==
    /\ InterruptDue
    /\ inst.pc \in PlayPcs \cup {"construct"}
    /\ inst' = IF inst.pc \in TryPcs
               THEN [inst EXCEPT !.interrupts = @ + 1, !.pc = "except"]
               ELSE [inst EXCEPT
                       !.interrupts = @ + 1,
                       !.exc = "KeyboardInterrupt",
                       !.pc = IF inst.pc = "except" THEN "finally"
                              ELSE IF inst.pc = "construct"
                                   THEN "construct_raised"
                              ELSE "play_raised"]
    /\ UNCHANGED mainVars

\* One statement of the copy.
I_Next ==
    \/ I_MainCheck
    \/ I_ConstructOpenFails
    \/ I_Construct
    \/ I_PlayEnter
    \/ I_Seek
    \/ I_Delay
    \/ I_Banner
    \/ I_Pause
    \/ I_Clear
    \/ I_LoopTop
    \/ I_Read
    \/ I_Render
    \/ I_Emit
    \/ I_Progress
    \/ I_Incr
    \/ I_Pace
    \/ I_Wake
    \/ I_PrintComplete
    \/ I_TryEnd
    \/ I_Except
    \/ I_cleanup
    \/ I_PlayLeave
    \/ I_MainReturn
    \/ I_MainExcept

\* The two runs side by side: player.py takes a step when the copy has caught
\* up with it; the copy then takes its own step from the same position, on
\* the same source, clock reading and interrupt (an interrupt player.py
\* received is delivered to the copy at the position it was received at).
NextBoth ==
    \/ (inst.pc = pc /\ Next)
    \/ I_Next
    \/ I_Interrupt

SpecBoth == Init /\ [][NextBoth]_vars

\* --------------------------------------------- pure-function specifications
\* Values of the command-line run's variables in the specifications of the
\* pure functions, which use only the variables they name.
MainIdle ==
    /\ exc = "none"
    /\ exitCode = -1
    /\ video_exists = TRUE
    /\ start_frame = 0
    /\ fps = <<0, 1>>
    /\ frame_count = 0
    /\ cap_len = 0
    /\ opens = 0
    /\ cap_pos = 0
    /\ seeks = 0
    /\ releases = 0
    /\ frame_delay = <<0, 1>>
    /\ frame_num = 0
    /\ elapsed = <<0, 1>>
    /\ sleep_time = <<0, 1>>
    /\ slept = <<>>
    /\ out = <<>>
    /\ progress = <<>>
    /\ fetched = <<>>
    /\ emitted = <<>>
    /\ eos = FALSE
    /\ interrupts = 0

\* SpecGlyph: one pixel of frame_to_ascii's inner loop, for every luminance
\* and every ramp length from 2 to MaxRampLen.
InitGlyph ==
    /\ pc = "glyph"
    /\ pixel \in 0 .. MaxLuminance
    /\ ramp_len \in 2 .. MaxRampLen
    /\ char_idx = -1
    /\ width = DefaultWidth
    /\ detailed = FALSE
    /\ ascii_chars = <<>>
    /\ original_width = 0
    /\ original_height = 0
    /\ height = 0
    /\ gray = <<>>
    /\ ascii_frame = <<>>
    /\ inst = InstIdle
    /\ MainIdle

GlyphStep ==
    /\ pc = "glyph"
    /\ char_idx' = char_index(pixel, ramp_len)
    /\ pc' = "glyph_done"
    /\ UNCHANGED <<exc, exitCode, argVars, playerVars, capVars, loopVars,
                   obsVars, interrupts, pixel, ramp_len, gray, ascii_frame,
                   inst>>

NextGlyph == GlyphStep

SpecGlyph == InitGlyph /\ [][NextGlyph]_vars

\* Resolutions <<original_width, original_height>> examined by SpecHeight.
HeightResolutions ==
    {<<1920, 1080>>, <<1280, 720>>, <<640, 480>>, <<320, 240>>,
     <<1080, 1920>>, <<1, 1>>, <<1, 2>>, <<3, 1>>}

\* SpecHeight: the height derivation of __init__, for every width from 1 to
\* MaxWidth, every width from 0 down to 1 - MaxWidth, and every resolution of
\* HeightResolutions.
InitHeight ==
    /\ pc = "height"
    /\ \E w \in 1 .. MaxWidth, negate \in BOOLEAN :
          width = IF negate THEN 1 - w ELSE w
    /\ \E res \in HeightResolutions :
          /\ original_width = res[1]
          /\ original_height = res[2]
    /\ height = 0
    /\ detailed = FALSE
    /\ ascii_chars = <<>>
    /\ PureIdle
    /\ MainIdle

HeightStep ==
    /\ pc = "height"
    /\ height' = DerivedHeight(width, original_height, original_width)
    /\ pc' = "height_done"
    /\ UNCHANGED <<exc, exitCode, argVars, ascii_chars, fps, frame_count,
                   original_width, original_height, cap_len, capVars,
                   loopVars, obsVars, interrupts, pureVars>>

NextHeight == HeightStep

SpecHeight == InitHeight /\ [][NextHeight]_vars

\* SpecRender: frame_to_ascii on every resized image of at most MaxRows rows
\* and MaxCols columns, under both ramps.
InitRender ==
    /\ pc = "render_in"
    /\ width \in 1 .. MaxCols
    /\ height \in 1 .. MaxRows
    /\ detailed \in BOOLEAN
    /\ ascii_chars = SelectRamp(detailed)
    /\ gray \in ResizedGray(width, height)
    /\ ascii_frame = <<>>
    /\ original_width = 0
    /\ original_height = 0
    /\ pixel = 0
    /\ ramp_len = 0
    /\ char_idx = 0
    /\ inst = InstIdle
    /\ MainIdle

RenderStep ==
    /\ pc = "render_in"
    /\ ascii_frame' = frame_to_ascii(gray, ascii_chars)
    /\ pc' = "render_done"
    /\ UNCHANGED <<exc, exitCode, argVars, playerVars, capVars, loopVars,
                   obsVars, interrupts, pixel, ramp_len, char_idx, gray,
                   inst>>

NextRender == RenderStep

SpecRender == InitRender /\ [][NextRender]_vars

\* ------------------------------------------------------------------ claims
CountOf(line) == Cardinality({i \in 1 .. Len(out) : out[i] = line})

\* Positions of a playback pass: inside the try block, once frame_delay and
\* frame_num are assigned.
PassPcs == TryPcs \ {"seek", "delay"}

\* The stream position of the first frame a pass fetches.
FirstPos == IF start_frame > 0 THEN start_frame ELSE 0

\* C1: whichever way a call of play ends, cap.release() has been executed
\* exactly once by the time control is back at the caller.
C1_ReleaseExactlyOnce ==
    pc \in {"play_returned", "play_raised"} => releases = 1

\* C2: when the source reports frame_count = 0 and still delivers a frame,
\* printing the progress line raises no division error and reports 0%.
C2_ZeroTotalNoDivisionError ==
    (frame_count = 0 /\ Len(fetched) > 0) =>
        /\ exc # "ZeroDivisionError"
        /\ \A i \in 1 .. Len(progress) : progress[i][3] = 0

\* The construction of the player failed: the open failed, or the height
\* derivation raised.
ConstructionFailed ==
    \/ exc = "ValueError"
    \/ exc = "ZeroDivisionError" /\ original_width = 0 /\ Len(fetched) = 0

\* C3: a run that passed the file-exists check exits with status 0, at the
\* end of the stream and on an interrupt alike, unless the construction
\* failed; and a missing file gives a non-zero status.
C3_ExitCodeZeroUnlessConstructionFails ==
    pc = "exited" =>
        IF video_exists
        THEN (exitCode # 0) <=> ConstructionFailed
        ELSE exitCode # 0

\* C4: a call of play that returns has printed exactly one status line:
\* "stopped by user" if and only if an interrupt ended it, "playback
\* complete" if and only if the end of the stream ended it.
C4_ExactlyOneStatusLine ==
    pc = "play_returned" =>
        /\ CountOf("complete") + CountOf("stopped") = 1
        /\ (CountOf("stopped") = 1) <=> (interrupts > 0)
        /\ (CountOf("complete") = 1) <=> (eos /\ interrupts = 0)

\* C5 as stated: in every state of a playback pass the frame index is
\* within [0, frame_count].
C5_IndexWithinFrameCount ==
    pc \in PassPcs => (0 <= frame_num /\ frame_num <= frame_count)

\* C5 as amended: in every state of a playback pass the frame index is
\* start_frame plus the number of frames whose progress line has been
\* printed and counted, and no step of the pass decreases it.
C5_IndexCountsFromStart ==
    /\ [](pc \in PassPcs =>
            frame_num = start_frame
                        + (IF pc = "incr" THEN Len(progress) - 1
                                          ELSE Len(progress)))
    /\ [][(pc \in PassPcs /\ pc' \in PassPcs) => frame_num' >= frame_num]_vars

\* A pass whose frame index has been incremented past frame_count.
C5_Witness ==
    /\ pc = "pace"
    /\ frame_num > frame_count
    /\ start_frame = 0

\* C6: the frames fetched are consecutive stream positions in increasing
\* order; the frames emitted are a prefix of them, at most one behind; and
\* whenever a fetch begins every frame fetched so far has been emitted.
C6_FramesInOrderNoneDropped ==
    /\ \A i \in 1 .. Len(fetched) : fetched[i] = FirstPos + i - 1
    /\ Len(emitted) <= Len(fetched)
    /\ Len(fetched) <= Len(emitted) + 1
    /\ \A i \in 1 .. Len(emitted) : emitted[i] = fetched[i]
    /\ pc \in {"loop_top", "read"} => emitted = fetched

\* A second fetch about to begin after an iteration that overran
\* frame_delay, both frames fetched so far emitted.
C6_Witness ==
    /\ pc = "read"
    /\ Len(emitted) = 2
    /\ ~RatPositive(sleep_time)

\* C7: the glyph index is within [0, n-1], is 0 for luminance 0 and n-1 for
\* luminance 255, and is not below the index of any smaller luminance.
C7_GlyphIndexInRangeMonotone ==
    pc = "glyph_done" =>
        /\ 0 <= char_idx
        /\ char_idx <= ramp_len - 1
        /\ pixel = 0 => char_idx = 0
        /\ pixel = MaxLuminance => char_idx = ramp_len - 1
        /\ \A l \in 0 .. pixel : char_index(l, ramp_len) <= char_idx

\* Luminance 255 mapped to the last glyph of a ramp of 70.
C7_Witness ==
    /\ pc = "glyph_done"
    /\ pixel = MaxLuminance
    /\ ramp_len = 70
    /\ char_idx = 69

\* C8 as stated: the height is width * original_height / original_width *
\* 0.55 rounded to the nearest integer.
C8_HeightIsRounded ==
    pc = "height_done" =>
        height = RoundHalfEven(width * original_height * 55,
                               original_width * 100)

\* C8 as amended: the height is that value truncated toward zero: it has
\* the sign of the width (or is 0) and is the largest magnitude h with
\* h * original_width * 100 <= |width| * original_height * 55.
C8_HeightIsTruncated ==
    pc = "height_done" =>
        /\ (width >= 0 => height >= 0)
        /\ (width <= 0 => height <= 0)
        /\ Abs(height) * original_width * 100
               <= Abs(width) * original_height * 55
        /\ Abs(width) * original_height * 55
               < (Abs(height) + 1) * original_width * 100

\* Width 100 on a 1920x1080 source: 30.9375 becomes 30.
C8_Witness ==
    /\ pc = "height_done"
    /\ width = 100
    /\ original_width = 1920
    /\ original_height = 1080
    /\ height = 30

\* C9: the text block has height lines, each of width glyphs of the ramp
\* followed by one line separator.
C9_BlockShape ==
    pc = "render_done" =>
        /\ Len(ascii_frame) = height * (width + 1)
        /\ \A r \in 1 .. height :
              /\ ascii_frame[r * (width + 1)] = "\n"
              /\ \A c \in 1 .. width :
                    \E k \in 1 .. Len(ascii_chars) :
                       ascii_frame[(r - 1) * (width + 1) + c] = ascii_chars[k]
        /\ \A k \in 1 .. Len(ascii_chars) : ascii_chars[k] # "\n"

\* A 2x2 image rendered with the detailed ramp.
C9_Witness ==
    /\ pc = "render_done"
    /\ width = 2
    /\ height = 2
    /\ detailed
    /\ Len(ascii_frame) = 6

\* C10: frame_delay is 1/fps when fps > 0 and 0.033 when fps <= 0; it is
\* finite (no zero denominator, so no division error) and positive.
C10_FrameDelay ==
    pc \in PassPcs =>
        /\ frame_delay[2] # 0
        /\ RatPositive(frame_delay)
        /\ fps[1] > 0 => frame_delay[1] * fps[1] = frame_delay[2] * fps[2]
        /\ fps[1] <= 0 => frame_delay[1] * 1000 = frame_delay[2] * 33

\* A source reporting frame rate 0 played with the fallback delay.
C10_Witness ==
    /\ pc = "banner"
    /\ fps[1] = 0
    /\ frame_delay = <<33, 1000>>

\* C11: a missing path ends the run with the line "Error: File not found",
\* a non-zero status and no open of the source; a source that cannot be
\* opened ends it with the line "Error: <message>", a non-zero status and
\* play never entered (no banner, no seek, no fetch, no frame, no release).
C11_FailuresBeforePlay ==
    /\ (pc = "exited" /\ ~video_exists) =>
            /\ out = <<"Error: File not found">>
            /\ exitCode # 0
            /\ opens = 0
    /\ (pc = "exited" /\ video_exists /\ exc = "ValueError") =>
            /\ out = <<ErrorLine("ValueError")>>
            /\ exitCode # 0
            /\ opens = 1
    /\ (~video_exists \/ exc = "ValueError") =>
            /\ pc \notin PlayPcs
            /\ seeks = 0
            /\ releases = 0
            /\ fetched = <<>>
            /\ emitted = <<>>

\* A run ended for a missing file, nothing opened.
C11_Witness ==
    /\ pc = "exited"
    /\ ~video_exists
    /\ exitCode = 1
    /\ opens = 0

\* a < b, for rationals with positive denominators
RatLess(a, b) == a[1] * b[2] < b[1] * a[2]

\* d + e = total, for a rational d whose denominator is a common multiple
\* of the other two
SumsTo(d, e, total) ==
    /\ d[2] > 0
    /\ d[2] % e[2] = 0
    /\ d[2] % total[2] = 0
    /\ d[1] + e[1] * (d[2] \div e[2]) = total[1] * (d[2] \div total[2])

\* C12: time.sleep is called at most once per emitted frame (besides the
\* banner pause); a call other than the banner pause is made by the pacing
\* step only, with this iteration's frame emitted and counted, when elapsed
\* is below frame_delay, and for frame_delay - elapsed; when elapsed is not
\* below frame_delay the pacing step goes back to the top of the loop
\* without a call.
C12_SleepOncePerFrame ==
    /\ [](Len(slept) <= 1 + Len(progress))
    /\ [][slept' # slept =>
            \/ /\ pc = "pause"
               /\ slept' = Append(slept, <<BannerPauseSeconds, 1>>)
            \/ /\ pc = "pace"
               /\ Len(emitted) = Len(fetched)
               /\ Len(progress) = Len(emitted)
               /\ frame_num = start_frame + Len(progress)
               /\ RatLess(elapsed', frame_delay)
               /\ Len(slept') = Len(slept) + 1
               /\ SubSeq(slept', 1, Len(slept)) = slept
               /\ SumsTo(slept'[Len(slept')], elapsed', frame_delay)]_vars
    /\ [][(pc = "pace" /\ pc' # "except"
              /\ ~RatLess(elapsed', frame_delay)) =>
            (slept' = slept /\ pc' = "loop_top")]_vars

\* Two frames emitted: one iteration slept, the other overran and did not.
C12_Witness ==
    /\ pc = "loop_top"
    /\ Len(progress) = 2
    /\ Len(slept) = 2

\* The start index is positive and at or past the end of the stream.
StartPastEnd == start_frame > 0 /\ start_frame >= cap_len

\* C13: play seeks at most once, and past the seek step it has sought
\* exactly once if start_frame > 0 and not at all otherwise, so the seek
\* precedes every fetch; with start_frame past the end no frame is ever
\* fetched or emitted, and a call that no interrupt disturbs returns having
\* seen the end of the stream, printed "playback complete" and released the
\* source once.
C13_SeekOnceIffStartPositive ==
    /\ seeks <= 1
    /\ seeks = 1 => start_frame > 0
    /\ (pc \in TryPcs \ {"seek"} \/ fetched # <<>>) =>
            seeks = (IF start_frame > 0 THEN 1 ELSE 0)
    /\ StartPastEnd => (fetched = <<>> /\ emitted = <<>>)
    /\ (StartPastEnd /\ interrupts = 0
          /\ pc \in {"play_returned", "play_raised"}) =>
            /\ pc = "play_returned"
            /\ eos
            /\ CountOf("complete") = 1
            /\ CountOf("stopped") = 0
            /\ releases = 1

\* A call with start_frame past the end of a non-empty stream has returned.
C13_Witness ==
    /\ pc = "play_returned"
    /\ cap_len > 0
    /\ start_frame > cap_len
    /\ seeks = 1
    /\ interrupts = 0

\* The number of frames the source delivers from the start position on.
Deliverable == IF cap_len > FirstPos THEN cap_len - FirstPos ELSE 0

\* C14: with no interrupt, a call of play that has ended has ended in
\* Completed: it returned after the end of the stream, printed "playback
\* complete", and emitted every frame from the start position to the end.
C14_CompletesHavingEmittedAll ==
    (pc \in {"play_returned", "play_raised"} /\ interrupts = 0) =>
        /\ pc = "play_returned"
        /\ eos
        /\ CountOf("complete") = 1
        /\ Len(emitted) = Deliverable
        /\ \A i \in 1 .. Len(emitted) : emitted[i] = FirstPos + i - 1

\* The fields of the player that construction fixes.
SessionFields ==
    <<ascii_chars, width, height, fps, frame_count, original_width,
      original_height>>

\* C15: during play the glyph ramp, width, height, frame rate and total frame
\* count keep the values construction gave them (the ramp selected by the
\* --detailed flag, the height derived from the width and the source size);
\* no step of play, whichever it is, changes any of them.
C15_SessionFieldsFixedDuringPlay ==
    /\ [](pc \in PlayPcs =>
            /\ ascii_chars = SelectRamp(detailed)
            /\ height = DerivedHeight(width, original_height, original_width))
    /\ [][(pc \in PlayPcs) => UNCHANGED SessionFields]_vars

\* A call that sought, fetched, rendered, emitted and slept, handled an
\* interrupt and has released the source.
C15_Witness ==
    /\ pc = "cleanup_done"
    /\ seeks = 1
    /\ Len(emitted) >= 1
    /\ Len(slept) >= 2
    /\ CountOf("stopped") = 1
    /\ releases = 1
    /\ frame_count > 0
    /\ height > 0

\* C16: for a width >= 1 and a source of positive width and height the
\* player is constructed with a derived height >= 1, so cv2.resize is given
\* positive dimensions for every frame rendered during play.
C16_DerivedHeightPositive ==
    (pc \in PlayPcs /\ width >= 1 /\ original_width > 0 /\ original_height > 0)
        => (height >= 1 /\ ~ResizeRaises(width, height) /\ exc # "cv2.error")

\* The line of player.py that a line of the copy corresponds to: the two
\* status lines differ in their text, every other line is the same.
PlayerLine(line) ==
    IF line = "[DONE] complete" THEN "complete"
    ELSE IF line = "[STOP] stopped" THEN "stopped"
    ELSE line

\* The two runs have done the same and are in the same state.
SameRun ==
    /\ inst.exc = exc
    /\ inst.exitCode = exitCode
    /\ inst.ascii_chars = ascii_chars
    /\ inst.height = height
    /\ inst.opens = opens
    /\ inst.seeks = seeks
    /\ inst.cap_pos = cap_pos
    /\ inst.releases = releases
    /\ inst.frame_delay = frame_delay
    /\ inst.frame_num = frame_num
    /\ inst.slept = slept
    /\ inst.fetched = fetched
    /\ inst.emitted = emitted
    /\ inst.progress = progress
    /\ inst.eos = eos
    /\ inst.interrupts = interrupts
    /\ Len(inst.out) = Len(out)
    /\ \A i \in 1 .. Len(out) :
          /\ PlayerLine(inst.out[i]) = out[i]
          /\ (inst.out[i] # out[i]) <=> (out[i] \in {"complete", "stopped"})

\* C17: run on the same command line, source, clock readings and
\* interrupts, the PLAYER_CODE copy answers every step of player.py with one
\* step of its own that brings it to the same position, and at every common
\* position the two runs have made the same seeks, fetches, emissions,
\* sleeps and releases, hold the same exception and exit code, and have
\* printed the same lines except for the text of the two status lines.
C17_CopyRunsInLockstep ==
    /\ [](inst.pc = pc => SameRun)
    /\ [][(inst.pc # pc) => (inst.pc' = pc')]_vars

\* Both runs have played two frames to the end of the stream and exited
\* with status 0, each having printed its own completion line.
C17_Witness ==
    /\ pc = "exited"
    /\ inst.pc = "exited"
    /\ inst.exitCode = 0
    /\ Len(inst.emitted) = 2
    /\ Len(inst.slept) >= 2
    /\ inst.releases = 1
    /\ \E i \in 1 .. Len(inst.out) :
          inst.out[i] = "[DONE] complete" /\ out[i] = "complete"

====
